---- MODULE Spec2Model ----
(***************************************************************************)
(* Model of the cold-email generator: utils.clean_text, Portfolio's        *)
(* query_links, Chain.extract_jobs and Chain.write_mail.                   *)
(*                                                                         *)
(* Python strings are held in the state as TLA+ strings and processed as   *)
(* sequences of one-character strings (Chars / Str convert).  The regular  *)
(* expressions of the source are computed character by character; the     *)
(* operators avoid recursion over the length of a text, so that texts     *)
(* longer than the program's caps (1500, 2000, 120) can be processed.      *)
(***************************************************************************)
EXTENDS Integers, Sequences, FiniteSets, TLC

VARIABLES
    pc,         \* the call in progress: "<fn>_call" before, "<fn>_done" after
    text,       \* clean_text: its argument
    cleaned,    \* clean_text(text)
    recleaned,  \* clean_text(cleaned)
    file,       \* Portfolio: the csv file [exists, readable, rows]
    data,       \* Portfolio.data: the rows of the table
    skillsArg,  \* query_links: its argument [list |-> BOOLEAN, val |-> ...]
    links,      \* query_links: the returned urls
    llm,        \* Chain.llm (and PromptTemplate) available
    reply,      \* what the collaborator does when invoked
    bs4,        \* BS4_AVAILABLE
    page,       \* extract_jobs: the page, a sequence of elements
    stage,      \* extract_jobs: the stage that returned, "delegated" or "heuristic"
    blocks,     \* extract_jobs: the candidate blocks handed to the loop
    accepted,   \* extract_jobs: `jobs` before the fallback of line 213
    sources,    \* extract_jobs: for each returned record, where it came from
    jobs,       \* extract_jobs: the returned list
    job,        \* write_mail: the job record
    urls,       \* write_mail: the links argument
    sender,     \* write_mail: sender_name
    mail        \* write_mail: the returned text

cleanVars   == <<text, cleaned, recleaned>>
portVars    == <<file, data, skillsArg, links>>
chainVars   == <<llm, reply, bs4>>
extractVars == <<page, stage, blocks, accepted, sources, jobs>>
mailVars    == <<job, urls, sender, mail>>

vars == <<pc, cleanVars, portVars, chainVars, extractVars, mailVars>>

\* The value of a variable a specification does not use.
Unused == "-"

(***************************************************************************)
(* Strings as sequences of characters                                      *)
(***************************************************************************)
Chars(s) == [i \in 1..Len(s) |-> SubSeq(s, i, i)]

RECURSIVE StrRange(_, _, _)
StrRange(cs, lo, hi) ==
    IF lo > hi THEN ""
    ELSE IF lo = hi THEN cs[lo]
    ELSE LET mid == (lo + hi) \div 2
         IN  StrRange(cs, lo, mid) \o StrRange(cs, mid + 1, hi)

Str(cs) == StrRange(cs, 1, Len(cs))

\* The concatenation of a sequence of sequences.
RECURSIVE FlatRange(_, _, _)
FlatRange(ss, lo, hi) ==
    IF lo > hi THEN <<>>
    ELSE IF lo = hi THEN ss[lo]
    ELSE LET mid == (lo + hi) \div 2
         IN  FlatRange(ss, lo, mid) \o FlatRange(ss, mid + 1, hi)

Flatten(ss) == FlatRange(ss, 1, Len(ss))

\* sep.join(ss)
Join(ss, sep) ==
    Flatten([i \in 1..Len(ss) |-> IF i = 1 THEN ss[i] ELSE sep \o ss[i]])

Range(f) == {f[i] : i \in DOMAIN f}

SetMin(S) == CHOOSE x \in S : \A y \in S : x <= y
SetMax(S) == CHOOSE x \in S : \A y \in S : x >= y

\* The elements of a finite set of integers in increasing order.
Sorted(S) ==
    LET rank == [x \in S |-> Cardinality({y \in S : y <= x})]
    IN  [k \in 1..Cardinality(S) |-> CHOOSE x \in S : rank[x] = k]

\* F applied to the value x: a value that is used several times is computed once.
With(x, F(_)) == F(x)

\* A character dropped by a substitution.
Gone == ""

\* s with character i replaced by Out(i), or dropped where Out(i) = Gone.
MapPick(s, Out(_)) ==
    SelectSeq([i \in 1..Len(s) |-> Out(i)], LAMBDA c : c # Gone)

\* s[a:b] of Python for 0 <= a, b: characters a+1 .. b.
Slice(s, a, b) ==
    LET hi == IF b > Len(s) THEN Len(s) ELSE b
    IN  IF a >= hi THEN <<>> ELSE SubSeq(s, a + 1, hi)

(***************************************************************************)
(* Character classes                                                       *)
(***************************************************************************)
LowerSeq == Chars("abcdefghijklmnopqrstuvwxyz")
UpperSeq == Chars("ABCDEFGHIJKLMNOPQRSTUVWXYZ")
LowerSet == Range(LowerSeq)
UpperSet == Range(UpperSeq)
DigitSet == Range(Chars("0123456789"))
\* str.isspace(), and \s of re, on the characters a TLA+ string can hold
SpaceSet == {" ", "\t", "\n", "\r", "\f"}
\* \w of re
WordSet  == LowerSet \cup UpperSet \cup DigitSet \cup {"_"}

LowerOf == [c \in UpperSet |-> LowerSeq[CHOOSE i \in 1..26 : UpperSeq[i] = c]]
LowerChar(c) == IF c \in UpperSet THEN LowerOf[c] ELSE c
\* str.lower()
Lower(s) == [i \in 1..Len(s) |-> LowerChar(s[i])]

IsSpace(c) == c \in SpaceSet
IsWord(c)  == c \in WordSet

\* str.strip()
Strip(s) ==
    LET n == Len(s)
        I == {i \in 1..n : ~IsSpace(s[i])}
    IN  IF I = {} THEN <<>>
        ELSE LET a == CHOOSE i \in 1..n : i \in I /\ \A j \in 1..(i - 1) : j \notin I
                 b == CHOOSE i \in 1..n : i \in I /\ \A j \in (i + 1)..n : j \notin I
             IN  SubSeq(s, a, b)

\* [x.strip() for x in ss], [x for x in ss if x.strip()], [x.lower() for x in ss]
StripEach(ss) == [i \in 1..Len(ss) |-> Strip(ss[i])]
NonBlank(ss)  == SelectSeq(ss, LAMBDA x : Strip(x) # <<>>)
LowerEach(ss) == [i \in 1..Len(ss) |-> Lower(ss[i])]

\* pat occurs in s at index i (1-based)
MatchAt(s, pat, i) ==
    /\ i >= 1
    /\ i + Len(pat) - 1 <= Len(s)
    /\ \A j \in 1..Len(pat) : s[i + j - 1] = pat[j]

\* `pat in s` of Python
Contains(s, pat) == \E i \in 1..(Len(s) - Len(pat) + 1) : MatchAt(s, pat, i)

(***************************************************************************)
(* utils.clean_text                                                        *)
(***************************************************************************)
\* re.sub(r"\r\n", "\n", text)
SubCrLf(s) ==
    MapPick(s, LAMBDA i :
        IF s[i] = "\r" /\ i < Len(s) /\ s[i + 1] = "\n" THEN Gone ELSE s[i])

IsBlank(c) == c \in {" ", "\t"}

\* re.sub(r"[ \t]{2,}", " ", text)
SubBlanks(s) ==
    MapPick(s, LAMBDA i :
        LET before == i > 1 /\ IsBlank(s[i - 1])
            after  == i < Len(s) /\ IsBlank(s[i + 1])
        IN  IF ~IsBlank(s[i]) \/ (~before /\ ~after) THEN s[i]
            ELSE IF before THEN Gone ELSE " ")

\* re.sub(r"\n{3,}", "\n\n", text)
SubNewlines(s) ==
    MapPick(s, LAMBDA i :
        IF i > 2 /\ s[i] = "\n" /\ s[i - 1] = "\n" /\ s[i - 2] = "\n"
        THEN Gone ELSE s[i])

clean_text(t) == Str(Strip(SubNewlines(SubBlanks(SubCrLf(Chars(t))))))

MaxLen == 5
Alphabet == {"a", " ", "\t", "\n", "\r"}

RECURSIVE StringsOf(_, _)
StringsOf(A, n) ==
    IF n = 0 THEN {""}
    ELSE LET S == StringsOf(A, n - 1)
         IN  S \cup {s \o c : s \in {x \in S : Len(x) = n - 1}, c \in A}

\* The variables of the other components, which a specification leaves alone.
NoClean   == text = Unused /\ cleaned = Unused /\ recleaned = Unused
NoPort    == file = Unused /\ data = Unused /\ skillsArg = Unused /\ links = Unused
NoChain   == llm = Unused /\ reply = Unused /\ bs4 = Unused
NoExtract == /\ page = Unused /\ stage = Unused /\ blocks = Unused /\ accepted = Unused
             /\ sources = Unused /\ jobs = Unused
NoMail    == job = Unused /\ urls = Unused /\ sender = Unused /\ mail = Unused

InitClean ==
    /\ pc = "clean_call"
    /\ text \in StringsOf(Alphabet, MaxLen)
    /\ cleaned = Unused /\ recleaned = Unused
    /\ NoPort /\ NoChain /\ NoExtract /\ NoMail

\* cleaned = clean_text(page_text)
CleanText ==
    /\ pc = "clean_call"
    /\ cleaned' = clean_text(text)
    /\ pc' = "clean_done"
    /\ UNCHANGED <<text, recleaned, portVars, chainVars, extractVars, mailVars>>

\* clean_text applied to its own result
CleanAgain ==
    /\ pc = "clean_done"
    /\ recleaned' = clean_text(cleaned)
    /\ pc' = "reclean_done"
    /\ UNCHANGED <<text, cleaned, portVars, chainVars, extractVars, mailVars>>

NextClean == CleanText \/ CleanAgain

SpecClean == InitClean /\ [][NextClean]_vars

\* C4: clean_text is idempotent: clean_text(clean_text(x)) = clean_text(x)
\* for every string x over ordinary characters, space, tab, "\n" and "\r".
C4_Idempotent == pc = "reclean_done" => recleaned = cleaned

(***************************************************************************)
(* Portfolio                                                               *)
(***************************************************************************)
\* seq with the elements at the indices Keep holds of, in order
PickIdx(seq, Keep(_)) ==
    LET marked == [i \in 1..Len(seq) |-> <<Keep(i), seq[i]>>]
        kept   == SelectSeq(marked, LAMBDA m : m[1])
    IN  [i \in 1..Len(kept) |-> kept[i][2]]

\* the `uniq` loops: first occurrences, in order
Dedupe(seq) == PickIdx(seq, LAMBDA i : \A j \in 1..(i - 1) : seq[j] # seq[i])

\* s.split(c) for a one-character separator
SplitChar(s, c) ==
    LET cuts == Sorted({i \in 1..Len(s) : s[i] = c})
        m    == Len(cuts)
    IN  [k \in 1..(m + 1) |->
            Slice(s, IF k = 1 THEN 0 ELSE cuts[k - 1],
                     IF k = m + 1 THEN Len(s) ELSE cuts[k] - 1)]

\* [s.strip().lower() for s in str(x).split(",") if s.strip()]
SkillTerms(s) ==
    LET parts == SplitChar(s, ",")
        kept  == SelectSeq(parts, LAMBDA q : Strip(q) # <<>>)
    IN  [i \in 1..Len(kept) |-> Lower(Strip(kept[i]))]

\* Portfolio.__init__: the table read from the file, or an empty table
LoadedData(f) == IF f.exists /\ f.readable THEN f.rows ELSE <<>>

\* the condition of line 32 for one row
RowMatches(terms, row_skills) ==
    \E k \in 1..Len(terms) :
        \/ \E r \in 1..Len(row_skills) : Contains(row_skills[r], terms[k])
        \/ \E r \in 1..Len(row_skills) : Contains(terms[k], row_skills[r])

\* the terms query_links matches with: a list is taken as it is (line 22)
QueryTerms(arg) ==
    IF arg.list THEN [i \in 1..Len(arg.val) |-> Chars(arg.val[i])]
    ELSE SkillTerms(Chars(arg.val))

UrlCap == 10

query_links(rows, arg) ==
    LET terms   == QueryTerms(arg)
        hit(i)  == /\ rows[i].url # ""
                   /\ \/ terms = <<>>
                      \/ RowMatches(terms, SkillTerms(Chars(rows[i].skills)))
        results == PickIdx([i \in 1..Len(rows) |-> rows[i].url], hit)
    IN  Slice(Dedupe(results), 0, UrlCap)

MaxRows == 2

Rows ==
    { [url |-> "https://x", skills |-> "python,aws"],
      [url |-> "https://y", skills |-> "Java, SQL"],
      [url |-> "",          skills |-> "aws"],
      [url |-> "https://x", skills |-> "sql"],
      [url |-> "https://z", skills |-> ""] }

RECURSIVE SeqsUpTo(_, _)
SeqsUpTo(S, n) ==
    IF n = 0 THEN {<<>>}
    ELSE LET T == SeqsUpTo(S, n - 1)
         IN  T \cup {Append(t, x) : t \in {y \in T : Len(y) = n - 1}, x \in S}

Digit(i) == SubSeq("0123456789", i + 1, i + 1)

\* a table of more than UrlCap rows with distinct urls
BigTable ==
    [i \in 1..(UrlCap + 2) |->
        [url |-> "https://w" \o Digit(i \div 10) \o Digit(i % 10), skills |-> "AWS,go"]]

Files ==
    {[exists |-> TRUE, readable |-> TRUE, rows |-> r] :
        r \in SeqsUpTo(Rows, MaxRows) \cup {BigTable}}
    \cup {[exists |-> e, readable |-> FALSE, rows |-> <<>>] : e \in BOOLEAN}

Queries ==
    {[list |-> FALSE, val |-> v] :
        v \in {"aws", "AWS", "cobol", "", " Python , sql", "javascript", "q"}}
    \cup {[list |-> TRUE, val |-> v] :
        v \in {<<"aws">>, <<"AWS">>, <<>>, <<"cobol", "sql">>, <<"">>, <<"Java">>}}

InitLinks ==
    /\ pc = "portfolio_new"
    /\ file \in Files
    /\ skillsArg \in Queries
    /\ data = Unused /\ links = Unused
    /\ NoClean /\ NoChain /\ NoExtract /\ NoMail

\* port = Portfolio()
NewPortfolio ==
    /\ pc = "portfolio_new"
    /\ data' = LoadedData(file)
    /\ pc' = "query_call"
    /\ UNCHANGED <<file, skillsArg, links, cleanVars, chainVars, extractVars, mailVars>>

\* links = port.query_links(skills)
QueryLinks ==
    /\ pc = "query_call"
    /\ links' = query_links(data, skillsArg)
    /\ pc' = "query_done"
    /\ UNCHANGED <<file, data, skillsArg, cleanVars, chainVars, extractVars, mailVars>>

NextLinks == NewPortfolio \/ QueryLinks

SpecLinks == InitLinks /\ [][NextLinks]_vars

\* What C7 says query_links returns: the urls of the rows with a url and a row
\* skill that contains, or is contained in, a queried skill, letter case ignored.
ClaimedTerms(arg) ==
    IF arg.list THEN [i \in 1..Len(arg.val) |-> Lower(Chars(arg.val[i]))]
    ELSE SkillTerms(Chars(arg.val))

ClaimedLinks(rows, arg) ==
    LET terms  == ClaimedTerms(arg)
        hit(i) == /\ rows[i].url # ""
                  /\ RowMatches(terms, SkillTerms(Chars(rows[i].skills)))
    IN  Slice(Dedupe(PickIdx([i \in 1..Len(rows) |-> rows[i].url], hit)), 0, UrlCap)

\* C7: for a query of at least one skill term, query_links returns exactly the
\* urls of the rows with a non-empty url and a skill overlapping a queried skill
\* (substring either way, case-insensitive for string and list queries alike),
\* in row order, without duplicates, cut to the first 10.
C7_QueryLinks ==
    (pc = "query_done" /\ ClaimedTerms(skillsArg) # <<>>)
        => links = ClaimedLinks(data, skillsArg)

(***************************************************************************)
(* chains.py: the noise classifier and the text helpers of extract_jobs    *)
(***************************************************************************)
CharsOfAll(ws) == [i \in 1..Len(ws) |-> Chars(ws[i])]

ROLE_KEYWORDS ==
    CharsOfAll(<<"engineer", "developer", "manager", "analyst", "designer", "intern",
                 "scientist", "specialist", "consultant", "associate", "sales",
                 "product", "security", "research", "backend", "frontend">>)

NAV_NOISE ==
    CharsOfAll(<<"skip to main content", "filter results", "select a language",
                 "clear filter", "menu", "brand">>)

\* some pattern of pats occurs in s
ContainsAny(s, pats) == \E k \in 1..Len(pats) : Contains(s, pats[k])

\* len(re.findall(r"\w+", text))
WordCount(s) ==
    Cardinality({i \in 1..Len(s) : IsWord(s[i]) /\ (i = 1 \/ ~IsWord(s[i - 1]))})

MinWords == 4

_is_noise(s) ==
    \/ WordCount(s) < MinWords
    \/ With(Lower(s), LAMBDA low : ContainsAny(low, NAV_NOISE))

\* the pieces of s between the terminators that start at the indices of A and
\* end at those of B (as many, pairwise); Python's re.split keeps an empty
\* piece at either end
Pieces(s, A, B) ==
    LET a == Sorted(A)
        b == Sorted(B)
        m == Len(a)
    IN  [k \in 1..(m + 1) |->
            Slice(s, IF k = 1 THEN 0 ELSE b[k - 1],
                     IF k = m + 1 THEN Len(s) ELSE a[k] - 1)]

\* re.split(r"\n{2,}", page_text)
SplitParagraphs(s) ==
    LET n  == Len(s)
        nl(i) == i >= 1 /\ i <= n /\ s[i] = "\n"
    IN  Pieces(s, {i \in 1..n : nl(i) /\ ~nl(i - 1) /\ nl(i + 1)},
                  {i \in 1..n : nl(i) /\ ~nl(i + 1) /\ nl(i - 1)})

\* the line boundaries of str.splitlines() among the characters of the model
BreakSet == {"\n", "\r", "\f"}

\* str.splitlines(): "\r\n" is one boundary, and no empty line follows a final one
SplitLines(s) ==
    LET n  == Len(s)
        lf(i) == s[i] = "\n" /\ i > 1 /\ s[i - 1] = "\r"
        cr(i) == s[i] = "\r" /\ i < n /\ s[i + 1] = "\n"
    IN  With(Pieces(s, {i \in 1..n : s[i] \in BreakSet /\ ~lf(i)},
                       {i \in 1..n : s[i] \in BreakSet /\ ~cr(i)}),
             LAMBDA all :
                IF all[Len(all)] = <<>> THEN SubSeq(all, 1, Len(all) - 1) ELSE all)

\* [l.strip() for l in b.splitlines() if l.strip()]
StrippedLines(s) == StripEach(NonBlank(SplitLines(s)))

\* re.sub(r"\s+", " ", s)
SubSpaces(s) ==
    MapPick(s, LAMBDA i :
        IF ~IsSpace(s[i]) THEN s[i]
        ELSE IF i > 1 /\ IsSpace(s[i - 1]) THEN Gone ELSE " ")

\* re.sub(r"\W+", " ", s)
SubNonWord(s) ==
    MapPick(s, LAMBDA i :
        IF IsWord(s[i]) THEN s[i]
        ELSE IF i > 1 /\ ~IsWord(s[i - 1]) THEN Gone ELSE " ")

TitleScan == 6
TitleMin  == 3
TitleMax  == 140

\* lines 173-179: the first of the first six lines that names a role, or the first line
RawTitle(lines) ==
    LET ok(i) == /\ TitleMin < Len(lines[i]) /\ Len(lines[i]) < TitleMax
                 /\ With(Lower(lines[i]), LAMBDA low : ContainsAny(low, ROLE_KEYWORDS))
    IN  With({i \in 1..Len(lines) : i <= TitleScan /\ ok(i)},
             LAMBDA C : IF C = {} THEN lines[1] ELSE lines[SetMin(C)])

\* line 180
TitleOf(lines) == Strip(SubSpaces(RawTitle(lines)))

\* line 181: the normalized title key
KeyOf(title) == Lower(Strip(SubNonWord(title)))

DescCap == 2000

\* lines 186-191
DescOf(lines, title) ==
    LET rest == IF lines[1] = title THEN SubSeq(lines, 2, Len(lines)) ELSE lines
    IN  With(Strip(Join(rest, <<" ">>)), LAMBDA desc :
            IF Len(desc) > DescCap THEN SubSeq(desc, 1, DescCap) \o <<".", ".", ".">>
            ELSE desc)

\* s matches pat at i, letter case ignored (pat in lower case)
MatchAtI(s, pat, i) ==
    /\ i >= 1
    /\ i + Len(pat) - 1 <= Len(s)
    /\ \A j \in 1..Len(pat) : LowerChar(s[i + j - 1]) = pat[j]

\* the first index >= i of s whose character is not in S, Len(s) + 1 if none
SkipWhile(s, i, S) ==
    LET n == Len(s)
    IN  IF i > n THEN n + 1
        ELSE CHOOSE k \in i..(n + 1) :
                /\ k = n + 1 \/ s[k] \notin S
                /\ \A j \in i..(k - 1) : s[j] \in S

LevelWords == CharsOfAll(<<"mid-level", "mid level", "senior", "junior", "entry", "intern">>)

\* the end of the match of the experience pattern of line 193 at i, 0 if none:
\* \d+\+?\s+years (which covers \d+\s+years), then the level words
ExpEndAt(s, i) ==
    IF s[i] \in DigitSet
    THEN With(SkipWhile(s, i, DigitSet), LAMBDA d :
         With(IF d <= Len(s) /\ s[d] = "+" THEN d + 1 ELSE d, LAMBDA p :
         With(SkipWhile(s, p, SpaceSet), LAMBDA w :
            IF w > p /\ MatchAtI(s, Chars("years"), w) THEN w + 4 ELSE 0)))
    ELSE With({k \in 1..Len(LevelWords) : MatchAtI(s, LevelWords[k], i)}, LAMBDA K :
            IF K = {} THEN 0 ELSE i + Len(LevelWords[SetMin(K)]) - 1)

\* lines 193-194
ExperienceOf(s) ==
    With([i \in 1..Len(s) |-> ExpEndAt(s, i)], LAMBDA end :
    With({i \in 1..Len(s) : end[i] # 0}, LAMBDA M :
        IF M = {} THEN Chars("Not specified")
        ELSE With(SetMin(M), LAMBDA i : SubSeq(s, i, end[i]))))

(***************************************************************************)
(* chains.py: _extract_skills_block                                        *)
(***************************************************************************)
HeaderWords ==
    CharsOfAll(<<"requirements", "qualifications", "skills", "you should have",
                 "what we're looking for">>)

\* m.end(1) of the search of line 42: the end of the first header word, 0 if none
HeaderEnd(s) ==
    With([i \in 1..Len(s) |-> {k \in 1..Len(HeaderWords) : MatchAtI(s, HeaderWords[k], i)}],
         LAMBDA at :
    With({i \in 1..Len(s) : at[i] # {}}, LAMBDA M :
        IF M = {} THEN 0
        ELSE With(SetMin(M), LAMBDA i : i + Len(HeaderWords[SetMin(at[i])]) - 1)))

\* the bullet characters of line 46 that a TLA+ string can hold
BulletSet == {"-", "*"}

\* the index of the last character of the line that holds index i
LineEnd(s, i) ==
    LET n == Len(s)
    IN  (CHOOSE k \in i..(n + 1) :
            /\ k = n + 1 \/ s[k] = "\n"
            /\ \A j \in i..(k - 1) : s[j] # "\n") - 1

\* the capture <<from, to>> of ^[-*]\s*(.+)$ at the line start p, <<0, 0>> if
\* none: \s* runs over line ends too, and gives characters back when nothing
\* but white space follows
BulletAt(s, p) ==
    With(SkipWhile(s, p + 1, SpaceSet), LAMBDA q :
        IF q <= Len(s) THEN <<q, LineEnd(s, q)>>
        ELSE With({r \in (p + 1)..Len(s) : s[r] # "\n"}, LAMBDA R :
                IF R = {} THEN <<0, 0>>
                ELSE With(SetMax(R), LAMBDA r : <<r, r>>)))

\* of the candidate matches cand (start indices, increasing; ends[k] the end of
\* the match at cand[k], 0 if none), those a scan from left to right takes: a
\* match that starts inside the one before is skipped. Scan takes the candidates
\* as a set C and the ends as a function end of the start index.
RECURSIVE ScanFrom(_, _, _, _)
ScanFrom(cand, ends, k, pos) ==
    IF k > Len(cand) THEN <<>>
    ELSE IF cand[k] > pos /\ ends[k] # 0
         THEN <<cand[k]>> \o ScanFrom(cand, ends, k + 1, ends[k])
         ELSE ScanFrom(cand, ends, k + 1, pos)

Scan(C, end) ==
    With(Sorted(C), LAMBDA cand :
        ScanFrom(cand, [k \in 1..Len(cand) |-> end[cand[k]]], 1, 0))

\* re.findall(r"(?m)^[\-\*]\s*(.+)$", tail)
Bullets(s) ==
    With({p \in 1..Len(s) : s[p] \in BulletSet /\ (p = 1 \/ s[p - 1] = "\n")}, LAMBDA P :
    With([p \in P |-> BulletAt(s, p)], LAMBDA cap :
    With(Scan(P, [p \in P |-> cap[p][2]]), LAMBDA taken :
        [k \in 1..Len(taken) |-> SubSeq(s, cap[taken[k]][1], cap[taken[k]][2])])))

\* re.sub(r"[^\w\s\+\#\.\-]", "", b).strip().lower()
BulletSkill(b) ==
    Lower(Strip(SelectSeq(b, LAMBDA c :
        IsWord(c) \/ IsSpace(c) \/ c \in {"+", "#", ".", "-"})))

\* the length of the separator of r"[;,/]| and | or " at i, 0 if none
SepLenAt(s, i) ==
    IF s[i] \in {";", ",", "/"} THEN 1
    ELSE IF MatchAt(s, Chars(" and "), i) THEN 5
    ELSE IF MatchAt(s, Chars(" or "), i) THEN 4
    ELSE 0

\* [x.strip().lower() for x in re.split(r"[;,/]| and | or ", s) if x.strip()]
SplitSkills(s) ==
    With([i \in 1..Len(s) |-> SepLenAt(s, i)], LAMBDA len :
    With({i \in 1..Len(s) : len[i] # 0}, LAMBDA C :
    With(Range(Scan(C, [i \in C |-> i + len[i] - 1])), LAMBDA taken :
        LowerEach(StripEach(NonBlank(
            Pieces(s, taken, {i + len[i] - 1 : i \in taken})))))))

HeaderLines == 4

\* lines 45-52: the skills that follow a header
BulletSkills(bullets) ==
    With(NonBlank(bullets), LAMBDA named :
        [k \in 1..Len(named) |-> BulletSkill(named[k])])

HeaderSkills(s) ==
    With(HeaderEnd(s), LAMBDA end :
        IF end = 0 THEN <<>>
        ELSE With(Slice(s, end, Len(s)), LAMBDA tail :
             With(Bullets(tail), LAMBDA bullets :
                IF bullets # <<>> THEN BulletSkills(bullets)
                ELSE SplitSkills(Join(Slice(StrippedLines(tail), 0, HeaderLines),
                                      <<" ">>)))))

InlineWords == CharsOfAll(<<"skill", "requirement">>)
\* [:\s] and [A-Za-z0-9 ,/\+\-#] of line 54
LabelSet  == SpaceSet \cup {":"}
InlineSet == LowerSet \cup UpperSet \cup DigitSet \cup {" ", ",", "/", "+", "-", "#"}

\* the capture <<from, to>> of (?:skills?|requirements?)[:\s]*([A-Za-z0-9 ,/\+\-#]+)
\* at i, <<0, 0>> if none: the label gives back a blank, or the word its final
\* "s", when no character of the class follows
InlineFrom(s, from) == <<from, SkipWhile(s, from, InlineSet) - 1>>

InlineAt(s, i) ==
    With({k \in 1..Len(InlineWords) : MatchAtI(s, InlineWords[k], i)}, LAMBDA K :
        IF K = {} THEN <<0, 0>>
        ELSE
    With(i + Len(InlineWords[SetMin(K)]), LAMBDA base :
    With(base <= Len(s) /\ LowerChar(s[base]) = "s", LAMBDA hasS :
    With(IF hasS THEN base + 1 ELSE base, LAMBDA k :
    With(SkipWhile(s, k, LabelSet), LAMBDA w :
        IF w <= Len(s) /\ s[w] \in InlineSet THEN InlineFrom(s, w)
        ELSE With({r \in k..(w - 1) : s[r] \in InlineSet}, LAMBDA R :
                IF R # {} THEN InlineFrom(s, SetMax(R))
                ELSE IF hasS THEN InlineFrom(s, base)
                ELSE <<0, 0>>))))))

InlineUsed == 2

\* lines 54-56: the skills of the first two inline labels
InlineSkills(s) ==
    With([i \in 1..Len(s) |-> InlineAt(s, i)], LAMBDA cap :
    With({i \in 1..Len(s) : cap[i][2] # 0}, LAMBDA M :
    With(Slice(Scan(M, [i \in M |-> cap[i][2]]), 0, InlineUsed), LAMBDA used :
        Flatten([k \in 1..Len(used) |->
            SplitSkills(SubSeq(s, cap[used[k]][1], cap[used[k]][2]))]))))

SkillCap == 30

_extract_skills_block(s) ==
    With(HeaderSkills(s), LAMBDA header :
        Slice(Dedupe(IF header # <<>> THEN header ELSE InlineSkills(s)), 0, SkillCap))

(***************************************************************************)
(* Chain.extract_jobs: the heuristic pipeline                              *)
(***************************************************************************)
\* the set literal of line 199, in the order it is written
COMMON ==
    CharsOfAll(<<"python", "java", "aws", "sql", "react", "docker", "kubernetes",
                 "ml", "ai", "devops", "sales", "design", "javascript">>)

Reverse(seq) == [i \in 1..Len(seq) |-> seq[Len(seq) + 1 - i]]

\* Python iterates a set of strings in an order that changes from one process to
\* the next (hash randomization): the orders the model draws from
CommonOrders == {COMMON, Reverse(COMMON)}

TokenSet == LowerSet \cup UpperSet \cup {"+", "#", "-"}
TokenMin == 3

\* re.findall(r"[A-Za-z\+#\-]{3,}", title)
TitleTokens(s) ==
    With(Sorted({i \in 1..Len(s) :
                    s[i] \in TokenSet /\ (i = 1 \/ s[i - 1] \notin TokenSet)}),
         LAMBDA starts :
            SelectSeq([k \in 1..Len(starts) |->
                          SubSeq(s, starts[k], SkipWhile(s, starts[k], TokenSet) - 1)],
                      LAMBDA r : Len(r) >= TokenMin))

\* re.search(r"\b" + re.escape(w) + r"\b", s), for a word w of word characters
HasWord(s, w) ==
    \E i \in 1..(Len(s) - Len(w) + 1) :
        /\ MatchAt(s, w, i)
        /\ i = 1 \/ ~IsWord(s[i - 1])
        /\ i + Len(w) > Len(s) \/ ~IsWord(s[i + Len(w)])

\* lines 199-204: the known skills named in the title, else those in the block
KeywordSkills(title, b, ord) ==
    With(SelectSeq(LowerEach(TitleTokens(title)), LAMBDA t : t \in Range(COMMON)),
         LAMBDA inTitle :
            IF inTitle # <<>> THEN inTitle
            ELSE With(Lower(b), LAMBDA lowb :
                    SelectSeq(ord, LAMBDA sk : HasWord(lowb, sk))))

\* lines 196-204
SkillsOf(title, b, ord) ==
    With(_extract_skills_block(b), LAMBDA skills :
        IF skills # <<>> THEN skills ELSE KeywordSkills(title, b, ord))

StrAll(ss) == [i \in 1..Len(ss) |-> Str(ss[i])]

\* a gate that lets every block through
NoGate(b) == FALSE

\* line 168: the noise gate in front of the assembly of a record
NoiseGate(b) == _is_noise(b)

\* lines 186-211: the record of an accepted block
BlockJob(b, lines, title, ord) ==
    [role        |-> Str(title),
     experience  |-> Str(ExperienceOf(b)),
     skills      |-> StrAll(SkillsOf(title, b, ord)),
     description |-> Str(DescOf(lines, title))]

\* lines 165-211: the loop over the candidate blocks from block k on; each
\* accepted block gives its record and the block it came from
RECURSIVE Assemble(_, _, _, _)
Assemble(bs, k, seen, ord) ==
    IF k > Len(bs) THEN <<>>
    ELSE With(bs[k], LAMBDA b :
         With(StrippedLines(b), LAMBDA lines :
            IF NoiseGate(b) \/ lines = <<>> THEN Assemble(bs, k + 1, seen, ord)
            ELSE With(TitleOf(lines), LAMBDA title :
                 With(KeyOf(title), LAMBDA key :
                    IF title = <<>> \/ key \in seen
                    THEN Assemble(bs, k + 1, seen, ord)
                    ELSE <<[job |-> BlockJob(b, lines, title, ord), src |-> Str(b)]>>
                         \o Assemble(bs, k + 1, seen \cup {key}, ord)))))

ContainerTags == {"article", "li", "div", "section"}
HeadingTags   == {"h1", "h2", "h3", "h4"}
Markers == CharsOfAll(<<"view job", "apply", "position", "role", "careers", "openings">>)

\* A page is a sequence of elements [tag, text]: text in an element <tag>, or
\* plain text (tag ""), one after the other with nothing in between.
Render(pg) ==
    Flatten([i \in 1..Len(pg) |->
        IF pg[i].tag = "" THEN Chars(pg[i].text)
        ELSE Chars("<" \o pg[i].tag \o ">" \o pg[i].text \o "</" \o pg[i].tag \o ">")])

\* line 106
PageText(pg) == Strip(Render(pg))

\* the strings of the parsed document, and the text of the document, which is
\* the parent of every heading of such a page: get_text(separator="\n").strip()
SoupStrings(pg) ==
    LET texts == [i \in 1..Len(pg) |-> Chars(pg[i].text)]
    IN  SelectSeq(texts, LAMBDA t : t # <<>>)

DocumentText(pg) == Strip(Join(SoupStrings(pg), <<"\n">>))

ContainerMin == 30
HeadingMin   == 40

\* lines 137-142
ContainerBlocks(pg) ==
    LET tagged == SelectSeq(pg, LAMBDA e : e.tag \in ContainerTags)
        texts  == [i \in 1..Len(tagged) |-> Strip(Chars(tagged[i].text))]
    IN  SelectSeq(texts, LAMBDA t :
            /\ Len(t) >= ContainerMin
            /\ With(Lower(t), LAMBDA low : ContainsAny(low, Markers)))

\* lines 143-149
HeadingBlocks(pg) ==
    LET heads  == SelectSeq(pg, LAMBDA e : e.tag \in HeadingTags)
        parent == DocumentText(pg)
        texts  == [i \in 1..Len(heads) |-> parent]
    IN  SelectSeq(texts, LAMBDA t : Len(t) > HeadingMin)

\* lines 132-152: bs is "parses", "raises" or "unavailable"
StructuralBlocks(bs, pg) ==
    IF bs # "parses" THEN <<>>
    ELSE With(ContainerBlocks(pg), LAMBDA cand :
            IF cand # <<>> THEN cand ELSE HeadingBlocks(pg))

ParagraphMin == 40

\* lines 155-163
ParagraphBlocks(s) ==
    SelectSeq(StripEach(SplitParagraphs(s)),
              LAMBDA q : Len(q) >= ParagraphMin /\ ~_is_noise(q))

\* the candidate blocks of line 165
CandidateBlocks(bs, pg) ==
    With(StructuralBlocks(bs, pg), LAMBDA found :
        IF found # <<>> THEN found ELSE ParagraphBlocks(PageText(pg)))

FallbackCap == 1500

\* the fallback record without the cut
UncutFallback(s) ==
    [role |-> "Unknown role", experience |-> "Not specified", skills |-> <<>>,
     description |-> Str(s)]

\* lines 213-219
FallbackJob(s) ==
    [role        |-> "Unknown role",
     experience  |-> "Not specified",
     skills      |-> <<>>,
     description |-> Str(Slice(s, 0, FallbackCap))]

(***************************************************************************)
(* Chain.extract_jobs: the delegated extraction                            *)
(*                                                                         *)
(* A reply of the collaborator is [raises, lbracket, rbracket, value]: the *)
(* invocation raises, or returns a content with content.find("[") =        *)
(* lbracket and content.rfind("]") = rbracket, whose span between the two  *)
(* json.loads reads as value.  A JSON value is [t |-> "null"], "num",      *)
(* "str", "list" (v a sequence of values), "dict" (v a sequence of         *)
(* <<key, value>>), or "invalid" when json.loads raises.                   *)
(***************************************************************************)
JInvalid      == [t |-> "invalid", v |-> <<>>]
JNull         == [t |-> "null", v |-> <<>>]
JNum          == [t |-> "num", v |-> <<>>]
JStr(x)       == [t |-> "str", v |-> x]
JList(xs)     == [t |-> "list", v |-> xs]
JDict(pairs)  == [t |-> "dict", v |-> pairs]

\* o.get(f, default) on a dict
Lookup(o, f, default) ==
    LET I == {i \in 1..Len(o.v) : o.v[i][1] = f}
    IN  IF I = {} THEN default ELSE o.v[SetMax(I)][2]

\* what `for s in x` yields, for the values it can iterate
Items(x) ==
    CASE x.t = "list" -> x.v
      [] x.t = "str"  -> [i \in 1..Len(x.v) |-> JStr(SubSeq(x.v, i, i))]
      [] x.t = "dict" -> [i \in 1..Len(x.v) |-> JStr(x.v[i][1])]
      [] OTHER        -> <<>>

StripStr(x) == Str(Strip(Chars(x)))

\* lines 121-126 raise nothing for this element
ElementOk(o) ==
    /\ o.t = "dict"
    /\ Lookup(o, "role", JStr("")).t = "str"
    /\ Lookup(o, "experience", JStr("")).t = "str"
    /\ Lookup(o, "description", JStr("")).t = "str"
    /\ With(Lookup(o, "skills", JList(<<>>)), LAMBDA sk :
            /\ sk.t \in {"list", "str", "dict"}
            /\ With(Items(sk), LAMBDA its : \A i \in 1..Len(its) : its[i].t = "str"))

\* lines 121-126
NormJob(o) ==
    [role        |-> StripStr(Lookup(o, "role", JStr("")).v),
     experience  |-> StripStr(Lookup(o, "experience", JStr("")).v),
     skills      |-> With(Items(Lookup(o, "skills", JList(<<>>))), LAMBDA sk :
                        [i \in 1..Len(sk) |-> StripStr(sk[i].v)]),
     description |-> StripStr(Lookup(o, "description", JStr("")).v)]

\* lines 108-129: the list the delegated extraction returns, <<>> when it falls
\* through to the heuristic pipeline (an exception is caught at line 128)
DelegatedJobs(r) ==
    LET start  == r.lbracket
        end    == r.rbracket + 1
        parsed == r.value
    IN  IF r.raises THEN <<>>
        ELSE IF ~(start # -1 /\ end # -1) THEN <<>>
        ELSE IF end <= start \/ parsed.t = "invalid" THEN <<>>
        ELSE IF ~(parsed.t = "list" /\ parsed.v # <<>>) THEN <<>>
        ELSE IF \E i \in 1..Len(parsed.v) : ~ElementOk(parsed.v[i]) THEN <<>>
        ELSE [i \in 1..Len(parsed.v) |-> NormJob(parsed.v[i])]

Source(kind, txt) == [kind |-> kind, text |-> txt]

\* Chain.extract_jobs: the returned list, with the stage that returned it, the
\* candidate blocks, the records accepted from them and each record's source
extract_jobs(l, r, bs, pg, ord) ==
    With(IF l THEN DelegatedJobs(r) ELSE <<>>, LAMBDA d :
        IF d # <<>>
        THEN [stage |-> "delegated", blocks |-> <<>>, accepted |-> <<>>, jobs |-> d,
              sources |-> [i \in 1..Len(d) |-> Source("delegated", "")]]
        ELSE
    With(CandidateBlocks(bs, pg), LAMBDA bl :
    With(Assemble(bl, 1, {}, ord), LAMBDA acc :
    With([i \in 1..Len(acc) |-> acc[i].job], LAMBDA got :
        [stage |-> "heuristic", blocks |-> StrAll(bl), accepted |-> got,
         jobs |-> IF got = <<>> THEN <<FallbackJob(PageText(pg))>> ELSE got,
         sources |-> IF got = <<>> THEN <<Source("fallback", "")>>
                     ELSE [i \in 1..Len(acc) |-> Source("block", acc[i].src)]]))))

(***************************************************************************)
(* The pages, replies and calls of extract_jobs                            *)
(***************************************************************************)
MaxParas == 2
MaxElems == 2

Repeat(x, n) == StrRange([i \in 1..n |-> x], 1, n)

MarkerText ==
    "Senior Engineer builds backend services for the team\nApply\nData Analyst works on reporting dashboards daily"
NoiseText == "Filter Results Page 2 of 10 Select a language"
ManySkillsText == Repeat("aws ", SkillCap) \o "aws"

Paragraphs ==
    { MarkerText,
      NoiseText,
      "Data Analyst\nRequirements:\n- SQL\n- Python\n3+ years of experience in analytics",
      "DATA-ANALYST\nWe need someone who knows python and java well",
      "Too short to count",
      "Join our team today\nwe offer great benefits and free snacks",
      ManySkillsText }

Plain(x) == <<[tag |-> "", text |-> x]>>

PlainTexts ==
    {Str(Join(CharsOfAll(ps), Chars("\n\n"))) :
        ps \in SeqsUpTo(Paragraphs, MaxParas) \ {<<>>}}
    \cup {"", "  \n ", " \n" \o NoiseText \o "\t",
          "menu " \o Repeat("x", FallbackCap),
          "Staff Engineer for the data team " \o Repeat("y", DescCap)}

Elements ==
    { [tag |-> "li",      text |-> "Careers menu: Home About Apply Contact us today"],
      [tag |-> "div",     text |-> "Backend Developer\nApply now to this position\nSkills: python, aws"],
      [tag |-> "h2",      text |-> NoiseText],
      [tag |-> "section", text |-> "Short role"],
      [tag |-> "article", text |-> "Product Manager - careers\nRequirements: 5 years of roadmap work"] }

HtmlPages == SeqsUpTo(Elements, MaxElems) \ {<<>>}

GoodJob ==
    JDict(<< <<"role", JStr(" Backend Engineer ")>>, <<"experience", JStr("3 years")>>,
             <<"skills", JList(<<JStr("python "), JStr("aws")>>)>>,
             <<"description", JStr("Build APIs")>> >>)

Content(l, r, v) == [raises |-> FALSE, lbracket |-> l, rbracket |-> r, value |-> v]

NoReply == [raises |-> TRUE, lbracket |-> -1, rbracket |-> -1, value |-> JInvalid]

Replies ==
    { NoReply,
      Content(-1, -1, JInvalid),                 \* no JSON array
      Content(0, -1, JInvalid),                  \* "[" and no "]"
      Content(2, 0, JInvalid),                   \* "]" before "["
      Content(0, 5, JInvalid),                   \* "[oops]"
      Content(0, 1, JList(<<>>)),                \* "[]"
      Content(5, 7, JList(<<JNum>>)),            \* {"a":[1]}
      Content(0, 9, JList(<<GoodJob>>)),
      Content(8, 17, JList(<<GoodJob, JDict(<< <<"role", JStr("QA Lead")>> >>)>>)),
      Content(0, 9, JList(<<JDict(<< <<"experience", JStr("1")>> >>)>>)),
      Content(0, 9, JList(<<JDict(<< <<"role", JStr("  ")>> >>)>>)),
      Content(0, 9, JList(<<JDict(<< <<"role", JStr("QA Lead")>> >>),
                            JDict(<< <<"role", JStr("qa  lead")>> >>)>>)),
      Content(0, 9, JList(<<JStr("x")>>)),
      Content(0, 9, JList(<<JDict(<< <<"role", JNum>> >>)>>)),
      Content(0, 9, JList(<<JDict(<< <<"role", JStr("a")>>, <<"skills", JStr("py")>> >>)>>)),
      Content(0, 9, JList(<<JDict(<< <<"role", JStr("a")>>, <<"skills", JNull>> >>)>>)),
      Content(0, 9, JList(<<JDict(<< <<"role", JStr("a")>>, <<"experience", JNull>> >>)>>)),
      Content(0, 9, JList(<<JDict(<< <<"role", JStr("a")>>,
                                     <<"skills", JList(<<JStr("sql"), JNum>>)>> >>)>>)),
      Content(0, 9, JList(<<JDict(<< <<"role", JStr("a")>>,
                                     <<"skills", JDict(<< <<"go", JNum>> >>)>> >>)>>)),
      Content(0, 9, JList(<<JDict(<< <<"role", JStr("a")>>,
            <<"skills", JList([i \in 1..(SkillCap + 1) |-> JStr("s")])>> >>)>>)) }

InitExtract ==
    /\ pc = "extract_call"
    /\ \/ /\ llm = FALSE /\ reply = NoReply
          /\ \/ bs4 = "unavailable" /\ page \in {Plain(x) : x \in PlainTexts}
             \/ bs4 \in {"parses", "raises"}
                /\ page \in HtmlPages \cup {Plain(MarkerText), Plain("")}
       \/ /\ llm = TRUE /\ reply \in Replies
          /\ bs4 = "parses"
          /\ page \in {Plain(""), Plain(MarkerText)} \cup {<<e>> : e \in Elements}
    /\ stage = Unused /\ blocks = Unused /\ accepted = Unused
    /\ sources = Unused /\ jobs = Unused
    /\ NoClean /\ NoPort /\ NoMail

\* jobs = chain.extract_jobs(cleaned)
ExtractJobs ==
    /\ pc = "extract_call"
    /\ \E ord \in CommonOrders :
        \E res \in {extract_jobs(llm, reply, bs4, page, ord)} :
            /\ stage' = res.stage
            /\ blocks' = res.blocks
            /\ accepted' = res.accepted
            /\ sources' = res.sources
            /\ jobs' = res.jobs
    /\ pc' = "extract_done"
    /\ UNCHANGED <<page, chainVars, cleanVars, portVars, mailVars>>

NextExtract == ExtractJobs

SpecExtract == InitExtract /\ [][NextExtract]_vars

(***************************************************************************)
(* The claims about extract_jobs                                           *)
(***************************************************************************)
Returned == pc = "extract_done"

\* C1: whatever the input and whatever the collaborator does, extract_jobs
\* returns a non-empty list of records and every record has a non-empty role.
C1_NonEmptyRoles ==
    Returned => /\ jobs # <<>>
                /\ \A i \in 1..Len(jobs) : jobs[i].role # ""

\* C2: no two records of one returned list have the same normalized title key,
\* whichever path produced the list.
C2_DistinctKeys ==
    Returned => \A i, j \in 1..Len(jobs) :
                    i < j => KeyOf(Chars(jobs[i].role)) # KeyOf(Chars(jobs[j].role))

\* What C3 calls a well-formed element: an object that has the four fields, with
\* strings for role, experience and description and a list of strings for skills.
ClaimedField(o, f, type) ==
    With({i \in 1..Len(o.v) : o.v[i][1] = f}, LAMBDA I :
        I # {} /\ o.v[SetMax(I)][2].t = type)

ClaimedElement(o) ==
    /\ o.t = "dict"
    /\ ClaimedField(o, "role", "str")
    /\ ClaimedField(o, "experience", "str")
    /\ ClaimedField(o, "description", "str")
    /\ ClaimedField(o, "skills", "list")
    /\ With(Lookup(o, "skills", JList(<<>>)), LAMBDA sk :
            \A i \in 1..Len(sk.v) : sk.v[i].t = "str")

\* the reply is a failure in the sense of C3
ClaimedFailure(r) ==
    \/ r.raises
    \/ r.lbracket = -1 \/ r.rbracket < r.lbracket
    \/ r.value.t # "list"
    \/ \E i \in 1..Len(r.value.v) : ~ClaimedElement(r.value.v[i])

\* C3 (extract_jobs): when the collaborator is unavailable, raises, or replies
\* with no JSON array, invalid JSON, or an element that misses a field or has
\* one of the wrong type, extract_jobs returns the result of the heuristic
\* pipeline.
C3_FallsThrough ==
    (Returned /\ (llm = FALSE \/ ClaimedFailure(reply))) => stage = "heuristic"

\* The fallback record C5 describes for the text s.
FallbackOf(s) ==
    [role |-> "Unknown role", experience |-> "Not specified", skills |-> <<>>,
     description |-> Str(Slice(s, 0, FallbackCap))]

\* C5 as stated: when no candidate block is accepted, extract_jobs returns
\* exactly one record, "Unknown role" / "Not specified" / no skills, whose
\* description is the input text cut to 1500 characters.
C5_FallbackOfInput ==
    (Returned /\ accepted = <<>>) => jobs = <<FallbackOf(Render(page))>>

\* C5, amended: when the heuristic pipeline runs and accepts no candidate block,
\* extract_jobs returns exactly one record, "Unknown role" / "Not specified" / no
\* skills, whose description is the input text without its leading and trailing
\* white space, cut to 1500 characters.
C5_FallbackOfStripped ==
    (Returned /\ stage = "heuristic" /\ accepted = <<>>)
        => jobs = <<FallbackOf(Strip(Render(page)))>>

\* a fallback was returned for an input that the cut shortens
C5_Witness ==
    /\ Returned /\ stage = "heuristic" /\ accepted = <<>>
    /\ Len(Strip(Render(page))) > FallbackCap

\* some record of the returned list has a role that contains w
SomeRoleHas(w) == \E i \in 1..Len(jobs) : Contains(Chars(jobs[i].role), Chars(w))

\* C6: for two job segments separated only by the marker word "Apply", one
\* naming "Senior Engineer" and the other "Data Analyst", the heuristic path
\* returns two distinct records, one with each of the two roles.
C6_MarkerSplit ==
    (Returned /\ stage = "heuristic" /\ page = Plain(MarkerText))
        => /\ Len(jobs) = 2
           /\ jobs[1] # jobs[2]
           /\ SomeRoleHas("Senior Engineer")
           /\ SomeRoleHas("Data Analyst")

\* C8: every returned record has at most 30 skills, whichever path produced it.
C8_SkillCap ==
    Returned => \A i \in 1..Len(jobs) : Len(jobs[i].skills) <= SkillCap

\* C10: a candidate block that the noise classifier flags is never the source
\* of a returned record, whether the structural search or the paragraph split
\* produced the block.
C10_NoNoiseSource ==
    Returned => \A i \in 1..Len(sources) :
                    sources[i].kind = "block" => ~_is_noise(Chars(sources[i].text))

\* records were assembled from candidate blocks of which one is noise
C10_Witness ==
    /\ Returned /\ accepted # <<>>
    /\ \E i \in 1..Len(blocks) : _is_noise(Chars(blocks[i]))

(***************************************************************************)
(* textwrap.fill(line, width=100) with the defaults of TextWrapper         *)
(* (Python 3.11), for a line without line boundaries                       *)
(***************************************************************************)
WrapWidth == 100
WrapOver  == 120
TabSize   == 8

CharAt(t, i) == IF i >= 1 /\ i <= Len(t) THEN t[i] ELSE ""

\* str.expandtabs(8): the number of blanks each tab becomes, for the tabs at the
\* indices tabs from the k-th on; prev is the tab before and col the column
\* after it
RECURSIVE TabPads(_, _, _, _)
TabPads(tabs, k, prev, col) ==
    IF k > Len(tabs) THEN <<>>
    ELSE With(col + (tabs[k] - prev - 1), LAMBDA at :
         With(TabSize - (at % TabSize), LAMBDA pad :
            <<pad>> \o TabPads(tabs, k + 1, tabs[k], at + pad)))

ExpandTabs(s) ==
    With(Sorted({i \in 1..Len(s) : s[i] = "\t"}), LAMBDA tabs :
    With(TabPads(tabs, 1, 0, 0), LAMBDA pads :
        Flatten([i \in 1..Len(s) |->
            IF s[i] = "\t"
            THEN [j \in 1..pads[CHOOSE k \in 1..Len(tabs) : tabs[k] = i] |-> " "]
            ELSE <<s[i]>>])))

\* _munge_whitespace: tabs expanded, every other white space a blank
Munge(s) ==
    With(ExpandTabs(s), LAMBDA t : [i \in 1..Len(t) |-> IF IsSpace(t[i]) THEN " " ELSE t[i]])

\* letter and word_punct of wordsep_re
IsLetter(c)    == c \in LowerSet \cup UpperSet \cup {"_"}
IsWordPunct(c) == IsWord(c) \/ c \in {"!", "\"", "'", "&", ".", ",", "?"}

\* wordsep_re ends a chunk with the hyphen at i: two letters, or letter-hyphen-
\* letter, before it, and letter, optional hyphen, letter after it
HyphenBreak(t, i) ==
    /\ t[i] = "-"
    /\ \/ IsLetter(CharAt(t, i - 2)) /\ IsLetter(CharAt(t, i - 1))
       \/ /\ IsLetter(CharAt(t, i - 3)) /\ CharAt(t, i - 2) = "-"
          /\ IsLetter(CharAt(t, i - 1))
    /\ IsLetter(CharAt(t, i + 1))
    /\ \/ IsLetter(CharAt(t, i + 2))
       \/ CharAt(t, i + 2) = "-" /\ IsLetter(CharAt(t, i + 3))

\* a run of two or more hyphens from a to b stands between a word_punct
\* character and a word character: the run is a chunk of its own
DashRun(t, a, b) ==
    /\ a < b
    /\ \A j \in a..b : t[j] = "-"
    /\ IsWordPunct(CharAt(t, a - 1))
    /\ IsWord(CharAt(t, b + 1))

\* the indices after which wordsep_re ends a chunk of the munged text t
ChunkEnds(t) ==
    With(Len(t), LAMBDA n :
        {i \in 1..n :
            \/ i = n
            \/ (t[i] = " ") # (t[i + 1] = " ")
            \/ HyphenBreak(t, i)
            \/ t[i + 1] = "-" /\ t[i] # "-"
               /\ DashRun(t, i + 1, SkipWhile(t, i + 1, {"-"}) - 1)
            \/ t[i] = "-" /\ t[i + 1] # "-"
               /\ With(SetMax({j \in 0..(i - 1) : CharAt(t, j) # "-"}), LAMBDA j :
                    DashRun(t, j + 1, i))})

\* the first chunk end at or after p
NextEnd(E, p) == CHOOSE e \in E : e >= p /\ \A f \in E : f >= p => e <= f

\* "".join(cur_line).strip() == "" for the piece from a to b
BlankPiece(t, a, b) == \A i \in a..b : t[i] = " "

\* _handle_long_word: where the line ends when the chunk after index last (the
\* end of the chunks that fit) is longer than the width, space being the room
\* left on the line: after the last hyphen in the room that has a character
\* other than a hyphen before it, else when the room is used up
LongWordEnd(t, last, space) ==
    With({q \in (last + 1)..(last + space) : t[q] = "-"}, LAMBDA H :
        IF H = {} THEN last + space
        ELSE With(SetMax(H), LAMBDA q :
                IF \E r \in (last + 1)..(q - 1) : t[r] # "-" THEN q
                ELSE last + space))

\* one round of the loop of _wrap_chunks, for the text from index from on: the
\* end of the line's text (before from when the line is empty) and the index
\* after which the next round goes on
WrapLine(t, E, from) ==
    With({e \in E : e >= from /\ e - from + 1 <= WrapWidth}, LAMBDA fit :
    With(IF fit = {} THEN from - 1 ELSE SetMax(fit), LAMBDA last :
    With(last < Len(t) /\ NextEnd(E, last + 1) - last > WrapWidth, LAMBDA long :
    With(IF long THEN LongWordEnd(t, last, WrapWidth - (last - from + 1)) ELSE last,
         LAMBDA end :
    With(IF long THEN last + 1
         ELSE SetMax({from} \cup {e + 1 : e \in {f \in E : f >= from /\ f < last}}),
         LAMBDA piece :
        [textEnd |-> IF BlankPiece(t, piece, end) THEN piece - 1 ELSE end,
         end     |-> end])))))

\* where a round starts: a chunk of blanks at the start of a line is dropped,
\* unless no line was emitted before
LineStart(t, E, pos, started) ==
    IF started /\ BlankPiece(t, pos, NextEnd(E, pos)) THEN NextEnd(E, pos) + 1 ELSE pos

\* _wrap_chunks from index pos on: the lines; started says that a line was
\* emitted before
RECURSIVE WrapFrom(_, _, _, _)
WrapFrom(t, E, pos, started) ==
    IF pos > Len(t) \/ LineStart(t, E, pos, started) > Len(t) THEN <<>>
    ELSE With(LineStart(t, E, pos, started), LAMBDA from :
         With(WrapLine(t, E, from), LAMBDA ln :
            (IF ln.textEnd >= from THEN <<SubSeq(t, from, ln.textEnd)>> ELSE <<>>)
                \o WrapFrom(t, E, ln.end + 1, started \/ ln.textEnd >= from)))

\* textwrap.fill(line, width=100)
Fill(line) ==
    With(Munge(line), LAMBDA t : Join(WrapFrom(t, ChunkEnds(t), 1, FALSE), <<"\n">>))

(***************************************************************************)
(* Chain.write_mail                                                        *)
(*                                                                         *)
(* A reply of the collaborator is [raises, content].  The dash of the      *)
(* first subject template is not a character of a TLA+ string: "~" stands  *)
(* for it, which like the dash is one character that is neither white      *)
(* space, nor a word character, nor a hyphen.                              *)
(***************************************************************************)
TopSkills  == 3
SnippetCap == 140
LinkCap    == 5

\* line 240
skill_str(skills) ==
    With(Slice(skills, 0, TopSkills), LAMBDA top :
        IF top = <<>> THEN Chars("relevant experience")
        ELSE Join(CharsOfAll(top), Chars(", ")))

\* line 242
snippet(desc) ==
    With(Strip(Slice(SubSpaces(Chars(desc)), 0, SnippetCap)), LAMBDA cut :
        IF cut = <<>> THEN Chars("short summary available on request") ELSE cut)

\* lines 243-244: the subject of the template that random.choice draws
subj_templates(k, role) ==
    CASE k = 1 -> Chars("Quick intro ~ ") \o role
      [] k = 2 -> Chars("Interest in ") \o role
      [] k = 3 -> Chars("Portfolio for ") \o role

\* lines 245-250: the body of the template that random.choice draws
templates(k, role, skills, snip) ==
    CASE k = 1 ->
            Chars("Hi,\n\nI saw the ") \o role \o Chars(" opening. I specialize in ")
            \o skills \o Chars(". A quick example: \"") \o snip
            \o Chars("\". Would you be open to a short call?")
      [] k = 2 ->
            Chars("Hello,\n\nI'm reaching out about the ") \o role
            \o Chars(" role. My background includes ") \o skills
            \o Chars(". I can share relevant demos on request.")
      [] k = 3 ->
            Chars("Hi,\n\nNoticed the ") \o role
            \o Chars(" role. I have hands-on experience with ") \o skills
            \o Chars(". Briefly: ") \o snip \o Chars(". Happy to connect for 15 mins.")

\* line 251
links_block(ls) ==
    IF ls = <<>> THEN Chars("\n\nI can share work samples on request.")
    ELSE With(Slice(ls, 0, LinkCap), LAMBDA shown :
            Chars("\n\nRelevant work samples:\n")
            \o Join([i \in 1..Len(shown) |-> Chars("- " \o shown[i])], <<"\n">>))

\* line 252
closing(sender_name) ==
    Chars("\n\nBest regards,\n" \o sender_name \o "\n[your-email@example.com]")

\* line 253
email_text(jb, ls, sender_name, subj, tmpl) ==
    Chars("Subject: ") \o subj_templates(subj, Chars(jb.role)) \o Chars("\n\n")
    \o templates(tmpl, Chars(jb.role), skill_str(jb.skills), snippet(jb.description))
    \o links_block(ls) \o closing(sender_name)

\* line 254: the lines of more than 120 characters are wrapped
WrapLong(txt) ==
    With(SplitLines(txt), LAMBDA lines :
        Join([i \in 1..Len(lines) |->
                 IF Len(lines[i]) > WrapOver THEN Fill(lines[i]) ELSE lines[i]],
             <<"\n">>))

\* Chain.write_mail, subj and tmpl being the templates that random.choice draws
write_mail(l, r, jb, ls, sender_name, subj, tmpl) ==
    IF l /\ ~r.raises THEN StripStr(r.content)
    ELSE Str(WrapLong(email_text(jb, ls, sender_name, subj, tmpl)))

LongLink == "https://" \o Repeat("b", WrapOver)

MailJobs ==
    { [role |-> "Backend Engineer", experience |-> "3 years",
       skills |-> <<"python", "aws">>, description |-> "Build APIs"],
      [role |-> "Data Analyst", experience |-> "Not specified",
       skills |-> <<"sql", "python", "excel", "tableau">>,
       description |-> "We   are looking for an analyst\nwho builds dashboards, writes reports and works hands-on with the finance team on forecasting and planning every single week of the year"],
      [role |-> "Unknown role", experience |-> "Not specified",
       skills |-> <<>>, description |-> "  "],
      [role |-> "Senior Staff Software Engineer for the Platform Reliability and Developer Productivity Infrastructure Group",
       experience |-> "senior", skills |-> <<"ci-cd">>, description |-> ""] }

MailLinks ==
    { <<>>,
      <<"https://a", "https://b">>,
      [i \in 1..(LinkCap + 1) |-> "https://w" \o Digit(i)],
      <<"https://a", LongLink>> }

MailReplies ==
    { [raises |-> TRUE, content |-> ""],
      [raises |-> FALSE, content |-> " Subject: Hello\n\nA short note.\n"],
      [raises |-> FALSE, content |-> ""] }

InitMail ==
    /\ pc = "mail_call"
    /\ \/ llm = FALSE /\ reply = [raises |-> TRUE, content |-> ""]
       \/ llm = TRUE /\ reply \in MailReplies
    /\ bs4 = Unused
    /\ job \in MailJobs
    /\ urls \in MailLinks
    /\ sender \in {"Hari", "Ana Li"}
    /\ mail = Unused
    /\ NoClean /\ NoPort /\ NoExtract

\* email = chain.write_mail(job, links)
WriteMail ==
    /\ pc = "mail_call"
    /\ \E subj \in 1..3, tmpl \in 1..3 :
        mail' = write_mail(llm, reply, job, urls, sender, subj, tmpl)
    /\ pc' = "mail_done"
    /\ UNCHANGED <<job, urls, sender, chainVars, cleanVars, portVars, extractVars>>

NextMail == WriteMail

SpecMail == InitMail /\ [][NextMail]_vars

\* the least index >= from at which pat occurs in s, 0 if none
FindFrom(s, pat, from) ==
    With({i \in from..(Len(s) - Len(pat) + 1) : MatchAt(s, pat, i)}, LAMBDA M :
        IF M = {} THEN 0 ELSE SetMin(M))

\* the index after the leftmost occurrences of pats[k], pats[k+1], ... in s, one
\* after the other from index from on; 0 if they do not occur in this order
RECURSIVE EndOfAll(_, _, _, _)
EndOfAll(s, pats, k, from) ==
    IF k > Len(pats) THEN from
    ELSE With(FindFrom(s, pats[k], from), LAMBDA i :
            IF i = 0 THEN 0 ELSE EndOfAll(s, pats, k + 1, i + Len(pats[k])))

\* C9: in template mode the returned text contains, in this order, the role,
\* each of the first up-to-3 skills, each of the first up-to-5 links, and the
\* closing with the sender's name; and no link occurs before the skills.
C9_SectionsInOrder ==
    (pc = "mail_done" /\ (llm = FALSE \/ reply.raises)) =>
        With(Chars(mail), LAMBDA body :
        With(CharsOfAll(Slice(urls, 0, LinkCap)), LAMBDA shown :
        With(EndOfAll(body, <<Chars(job.role)>> \o CharsOfAll(Slice(job.skills, 0, TopSkills)),
                      1, 1), LAMBDA afterSkills :
            /\ afterSkills # 0
            /\ EndOfAll(body, shown \o <<Chars("Best regards,\n" \o sender)>>,
                        1, afterSkills) # 0
            /\ \A k \in 1..Len(shown) : FindFrom(body, shown[k], 1) >= afterSkills)))

====
